---- MODULE Spec2Model ----
(***************************************************************************)
(* Model of dirsplitter.py: a directory's regular files are enumerated in  *)
(* sorted order, the output root and its shard directories are created,    *)
(* and every file is moved or copied into the shard computed from its      *)
(* 1-based position.                                                       *)
(*                                                                         *)
(* File and directory names: a source entry is named by a natural number   *)
(* (its rank in the lexicographic order of the real names); a shard        *)
(* directory name is the sequence of its decimal digits, "010" being       *)
(* <<0, 1, 0>>.                                                            *)
(***************************************************************************)
EXTENDS Integers, Sequences, FiniteSets, TLC

VARIABLES
    pc,                     \* position of the running operation
    command,                \* "m" (move) or "c" (copy)
    num_split_dirs,         \* number of split directories
    in_dir,                 \* entries of the source directory
    in_dir_start,           \* the entries of the source directory when the operation started
    file_list,              \* result of get_file_list
    num_files,              \* len(file_list)
    out_root,               \* TRUE when the output root directory exists
    sub_dirs,               \* names of the directories inside the output root
    out_files,              \* <<shard directory name, file name>> of each file under the output root
    i,                      \* loop variable of the transfer loop
    last_update_dir_index,  \* shard index of the previous transferred file
    log,                    \* progress notifications emitted by the transfer loop
    error,                  \* "None", or the exception that ended the operation
    split_dir_index,        \* argument of a direct get_ith_sub_dir_name call
    sub_dir_name,           \* result of a direct get_ith_sub_dir_name call
    assigned,               \* results of get_file_split_dir_index for positions 1, 2, ...
    calls                   \* number of completed create_split_dirs calls

vars == <<pc, command, num_split_dirs, in_dir, in_dir_start, file_list, num_files, out_root,
          sub_dirs, out_files, i, last_update_dir_index, log, error,
          split_dir_index, sub_dir_name, assigned, calls>>

-----------------------------------------------------------------------------
(* Bounds of the model *)

MaxFiles == 3
MaxShards == 100
NamerMaxShards == 110
AssignMaxShards == 6
AssignMaxFiles == 13
ProvMaxShards == 10
MaxCalls == 2

(* Program constant *)
n_k_print == 100

-----------------------------------------------------------------------------
(* Pure helpers *)

RECURSIVE FloorLog10(_)
\* int(math.floor(math.log10(n))) for n >= 1
FloorLog10(n) == IF n < 10 THEN 0 ELSE 1 + FloorLog10(n \div 10)

RECURSIVE Str(_)
\* str(n) for n >= 0, as the sequence of decimal digits
Str(n) == IF n < 10 THEN <<n>> ELSE Append(Str(n \div 10), n % 10)

\* '0' * k : the empty string when k <= 0
Zeros(k) == [j \in 1..k |-> 0]

\* get_ith_sub_dir_name padding by the digits of the total alone
get_ith_sub_dir_name_total_width(index, total) ==
    IF total <= 0 \/ index <= 0
    THEN [error |-> "ValueError", name |-> <<>>]
    ELSE [error |-> "None", name |-> Zeros(FloorLog10(total)) \o Str(index)]

\* get_ith_sub_dir_name: math.log10 raises ValueError on an argument <= 0
get_ith_sub_dir_name(index, total) ==
    IF total <= 0 \/ index <= 0
    THEN [error |-> "ValueError", name |-> <<>>]
    ELSE LET num_zeros == FloorLog10(total) - FloorLog10(index)
         IN  [error |-> "None", name |-> Zeros(num_zeros) \o Str(index)]

\* get_file_split_dir_index dividing before it tests the position
get_file_split_dir_index_eager(file_index, total, nfiles) ==
    IF total = 0 \/ nfiles \div total = 0
    THEN [error |-> "ZeroDivisionError", index |-> 0]
    ELSE LET num_files_p_split == nfiles \div total
         IN  [error |-> "None",
              index |-> IF file_index <= num_files_p_split * total
                        THEN (file_index - 1) \div num_files_p_split + 1
                        ELSE total]

\* get_file_split_dir_index dividing the position itself, not position - 1
get_file_split_dir_index_off_by_one(file_index, total, nfiles) ==
    IF total = 0
    THEN [error |-> "ZeroDivisionError", index |-> 0]
    ELSE LET num_files_p_split == nfiles \div total
         IN  IF file_index <= num_files_p_split * total
             THEN IF num_files_p_split = 0
                  THEN [error |-> "ZeroDivisionError", index |-> 0]
                  ELSE [error |-> "None",
                        index |-> file_index \div num_files_p_split + 1]
             ELSE [error |-> "None", index |-> total]

\* get_file_split_dir_index: the conditional expression tests its condition
\* first, so the division runs only when file_index <= num_files_p_split * n;
\* a division by zero raises ZeroDivisionError
get_file_split_dir_index(file_index, total, nfiles) ==
    IF total = 0
    THEN [error |-> "ZeroDivisionError", index |-> 0]
    ELSE LET num_files_p_split == nfiles \div total
         IN  IF file_index <= num_files_p_split * total
             THEN IF num_files_p_split = 0
                  THEN [error |-> "ZeroDivisionError", index |-> 0]
                  ELSE [error |-> "None",
                        index |-> (file_index - 1) \div num_files_p_split + 1]
             ELSE [error |-> "None", index |-> total]

\* os.makedirs(parent_dir): FileExistsError when the directory is there
makedirs(root) ==
    IF root THEN [error |-> "FileExistsError", root |-> root]
    ELSE [error |-> "None", root |-> TRUE]

\* os.mkdir(name): FileExistsError when the directory is there
mkdir(dirs, name) ==
    IF name \in dirs THEN [error |-> "FileExistsError", dirs |-> dirs]
    ELSE [error |-> "None", dirs |-> dirs \cup {name}]

RECURSIVE MkdirLoop_no_catch(_, _, _)
\* the loop of create_split_dirs without the except clause of os.mkdir
MkdirLoop_no_catch(dirs, j, total) ==
    IF j > total THEN [error |-> "None", dirs |-> dirs]
    ELSE LET sub == get_ith_sub_dir_name(j, total)
             made == mkdir(dirs, sub.name)
         IN  IF sub.error # "None" THEN [error |-> sub.error, dirs |-> dirs]
             ELSE IF made.error # "None"
                  THEN [error |-> made.error, dirs |-> made.dirs]
                  ELSE MkdirLoop_no_catch(made.dirs, j + 1, total)

RECURSIVE MkdirLoop_short(_, _, _)
\* the loop of create_split_dirs over range(1, num_split_dirs)
MkdirLoop_short(dirs, j, total) ==
    IF j >= total THEN [error |-> "None", dirs |-> dirs]
    ELSE LET sub == get_ith_sub_dir_name(j, total)
             made == mkdir(dirs, sub.name)
         IN  IF sub.error # "None" THEN [error |-> sub.error, dirs |-> dirs]
             ELSE IF made.error \notin {"None", "FileExistsError"}
                  THEN [error |-> made.error, dirs |-> made.dirs]
                  ELSE MkdirLoop_short(made.dirs, j + 1, total)

RECURSIVE MkdirLoop(_, _, _)
\* the loop of create_split_dirs from iteration j on (lines 93-100): an
\* error of get_ith_sub_dir_name leaves the loop, a FileExistsError of
\* os.mkdir is swallowed
MkdirLoop(dirs, j, total) ==
    IF j > total THEN [error |-> "None", dirs |-> dirs]
    ELSE LET sub == get_ith_sub_dir_name(j, total)
             made == mkdir(dirs, sub.name)
         IN  IF sub.error # "None" THEN [error |-> sub.error, dirs |-> dirs]
             ELSE IF made.error \notin {"None", "FileExistsError"}
                  THEN [error |-> made.error, dirs |-> made.dirs]
                  ELSE MkdirLoop(made.dirs, j + 1, total)

\* create_split_dirs (lines 88-100): the root, then the loop
create_split_dirs(root, dirs, total) ==
    LET top == makedirs(root)
        rest == MkdirLoop(dirs, 1, total)
    IN  IF top.error \notin {"None", "FileExistsError"}
        THEN [error |-> top.error, root |-> top.root, dirs |-> dirs]
        ELSE [error |-> rest.error, root |-> top.root, dirs |-> rest.dirs]

\* the shard directory names of the iterations 1..k of that loop
SplitDirNames(k, total) == {get_ith_sub_dir_name(j, total).name : j \in 1..k}

RECURSIVE SortedSeq(_)
\* sorted(...) of a set of names
SortedSeq(S) ==
    IF S = {} THEN <<>>
    ELSE LET m == CHOOSE x \in S : \A y \in S : x <= y
         IN  <<m>> \o SortedSeq(S \ {m})

\* get_file_list without the os.path.isfile filter
get_file_list_unfiltered(entries) == SortedSeq({e.name : e \in entries})

\* get_file_list: the regular files among the entries, sorted
get_file_list(entries) == SortedSeq({e.name : e \in {d \in entries : d.isfile}})

SeqRange(s) == {s[j] : j \in 1..Len(s)}

-----------------------------------------------------------------------------
(* split_directory *)

Init ==
    /\ pc = "start"
    /\ command \in {"m", "c"}
    /\ num_split_dirs \in 1..MaxShards
    /\ \E n \in 0..MaxFiles, has_sub \in BOOLEAN :
          in_dir = {[name |-> f, isfile |-> TRUE] : f \in 1..n}
                   \cup (IF has_sub THEN {[name |-> 0, isfile |-> FALSE]} ELSE {})
    /\ in_dir_start = in_dir
    /\ file_list = <<>>
    /\ num_files = 0
    /\ out_root \in BOOLEAN
    /\ sub_dirs \in (IF out_root
                     THEN {{}, SplitDirNames(num_split_dirs, num_split_dirs)}
                     ELSE {{}})
    /\ out_files = {}
    /\ i = 0
    /\ last_update_dir_index = 0
    /\ log = <<>>
    /\ error = "None"
    /\ split_dir_index = 0
    /\ sub_dir_name = <<>>
    /\ assigned = <<>>
    /\ calls = 0

\* lines 118-119
GetFileList ==
    /\ pc = "start"
    /\ file_list' = get_file_list(in_dir)
    /\ num_files' = Len(file_list')
    /\ pc' = "listed"
    /\ UNCHANGED <<command, num_split_dirs, in_dir_start, in_dir, out_root, sub_dirs, out_files,
                   i, last_update_dir_index, log, error, split_dir_index,
                   sub_dir_name, assigned, calls>>

\* line 123, no error other than FileExistsError from the file system
CreateSplitDirs ==
    /\ pc = "listed"
    /\ LET made == create_split_dirs(out_root, sub_dirs, num_split_dirs)
       IN  /\ out_root' = made.root
           /\ sub_dirs' = made.dirs
           /\ error' = made.error
           /\ pc' = IF made.error # "None" THEN "failed"
                    ELSE IF num_files = 0 THEN "done" ELSE "loop"
    /\ UNCHANGED <<command, num_split_dirs, in_dir_start, in_dir, file_list, num_files, out_files,
                   i, last_update_dir_index, log, split_dir_index,
                   sub_dir_name, assigned, calls>>

\* line 123, os.makedirs (k = 0) or the os.mkdir of iteration k raises an
\* error other than FileExistsError, which can happen only for a directory
\* that is not there yet
CreateSplitDirsFail ==
    /\ pc = "listed"
    /\ \E k \in 0..num_split_dirs :
          /\ IF k = 0 THEN ~out_root
             ELSE get_ith_sub_dir_name(k, num_split_dirs).name \notin sub_dirs
          /\ out_root' = (k > 0 \/ out_root)
          /\ sub_dirs' = sub_dirs \cup SplitDirNames(k - 1, num_split_dirs)
    /\ error' = "OSError"
    /\ pc' = "failed"
    /\ UNCHANGED <<command, num_split_dirs, in_dir_start, in_dir, file_list, num_files, out_files,
                   i, last_update_dir_index, log, split_dir_index,
                   sub_dir_name, assigned, calls>>

\* the destination of the file at position pos (lines 133-137)
SubDirIndex(pos) == get_file_split_dir_index(pos, num_split_dirs, num_files)
SubDir(pos) ==
    IF SubDirIndex(pos).error # "None"
    THEN [error |-> SubDirIndex(pos).error, name |-> <<>>]
    ELSE get_ith_sub_dir_name(SubDirIndex(pos).index, num_split_dirs)

\* the transfer can succeed only into a directory that exists
DestDirExists(pos) == out_root /\ SubDir(pos).name \in sub_dirs

\* copy_or_move_func bound to shutil.move whatever the command
copy_or_move_func_always_move(cmd, entries, f_name) ==
    entries \ {[name |-> f_name, isfile |-> TRUE]}

\* the source directory after copy_or_move_func(f_name, new_f_name) succeeded:
\* shutil.move when command is 'm', shutil.copy otherwise (line 125)
copy_or_move_func(cmd, entries, f_name) ==
    IF cmd = "m" THEN entries \ {[name |-> f_name, isfile |-> TRUE]} ELSE entries

\* the condition of the progress message without the test of the last index
ShouldLog_modulo_only(last_index, current_index) ==
    current_index % n_k_print = 0

\* the condition of the progress message (line 142)
ShouldLog(last_index, current_index) ==
    last_index # current_index /\ current_index % n_k_print = 0

\* the progress message (line 143)
LogMessage(cmd, name) ==
    [mode |-> IF cmd = "c" THEN "Copying" ELSE "Moving", dir |-> name]

\* one iteration of the loop, lines 130-145, the transfer succeeding
Transfer ==
    /\ pc = "loop"
    /\ LET pos == i + 1
           f_name == file_list[pos]
           sub_dir_index == SubDirIndex(pos).index
           sub == SubDir(pos)
       IN  /\ sub.error = "None"
           /\ DestDirExists(pos)
           /\ i' = pos
           /\ out_files' = out_files \cup {<<sub.name, f_name>>}
           /\ in_dir' = copy_or_move_func(command, in_dir, f_name)
           /\ log' = IF ShouldLog(last_update_dir_index, sub_dir_index)
                     THEN Append(log, LogMessage(command, sub.name))
                     ELSE log
           /\ last_update_dir_index' = sub_dir_index
           /\ pc' = IF pos = num_files THEN "done" ELSE "loop"
    /\ UNCHANGED <<command, num_split_dirs, in_dir_start, file_list, num_files, out_root, sub_dirs,
                   error, split_dir_index, sub_dir_name, assigned, calls>>

\* a loop iteration whose exception is recorded and the loop goes on
TransferFail_swallowed ==
    /\ pc = "loop"
    /\ i' = i + 1
    /\ error' = "OSError"
    /\ pc' = IF i + 1 = num_files THEN "done" ELSE "loop"
    /\ UNCHANGED <<command, num_split_dirs, in_dir_start, in_dir, file_list, num_files,
                   out_root, sub_dirs, out_files, last_update_dir_index, log,
                   split_dir_index, sub_dir_name, assigned, calls>>

\* one iteration of the loop in which get_ith_sub_dir_name or the transfer
\* raises: the exception leaves the loop and split_directory.  A failed
\* shutil.move or shutil.copy may have written the destination already; the
\* source entry is still there.
TransferFail ==
    /\ pc = "loop"
    /\ LET pos == i + 1
           f_name == file_list[pos]
           sub == SubDir(pos)
       IN  /\ i' = pos
           /\ IF sub.error # "None"
              THEN /\ error' = sub.error
                   /\ out_files' = out_files
              ELSE /\ error' = "OSError"
                   /\ \/ out_files' = out_files
                      \/ /\ DestDirExists(pos)
                         /\ out_files' = out_files \cup {<<sub.name, f_name>>}
    /\ pc' = "failed"
    /\ UNCHANGED <<command, num_split_dirs, in_dir_start, in_dir, file_list, num_files, out_root,
                   sub_dirs, last_update_dir_index, log, split_dir_index,
                   sub_dir_name, assigned, calls>>

Next == GetFileList \/ CreateSplitDirs \/ CreateSplitDirsFail \/ Transfer \/ TransferFail

Spec == Init /\ [][Next]_vars

-----------------------------------------------------------------------------
(* get_ith_sub_dir_name called directly, on arguments in and out of range *)

InitNamer ==
    /\ pc = "namer"
    /\ num_split_dirs \in 1..NamerMaxShards
    /\ split_dir_index \in (0 - NamerMaxShards)..(2 * NamerMaxShards)
    /\ command = "c"
    /\ in_dir = {}
    /\ in_dir_start = {}
    /\ file_list = <<>>
    /\ num_files = 0
    /\ out_root = FALSE
    /\ sub_dirs = {}
    /\ out_files = {}
    /\ i = 0
    /\ last_update_dir_index = 0
    /\ log = <<>>
    /\ error = "None"
    /\ sub_dir_name = <<>>
    /\ assigned = <<>>
    /\ calls = 0

GetIthSubDirName ==
    /\ pc = "namer"
    /\ LET sub == get_ith_sub_dir_name(split_dir_index, num_split_dirs)
       IN  /\ error' = sub.error
           /\ sub_dir_name' = sub.name
    /\ pc' = "named"
    /\ UNCHANGED <<command, num_split_dirs, in_dir_start, in_dir, file_list, num_files, out_root,
                   sub_dirs, out_files, i, last_update_dir_index, log,
                   split_dir_index, assigned, calls>>

NextNamer == GetIthSubDirName

SpecNamer == InitNamer /\ [][NextNamer]_vars

-----------------------------------------------------------------------------
(* get_file_split_dir_index applied to the positions 1..num_files in turn *)

InitAssigner ==
    /\ pc = "assign"
    /\ num_split_dirs \in 1..AssignMaxShards
    /\ num_files \in 0..AssignMaxFiles
    /\ command = "c"
    /\ in_dir = {}
    /\ in_dir_start = {}
    /\ file_list = <<>>
    /\ out_root = FALSE
    /\ sub_dirs = {}
    /\ out_files = {}
    /\ i = 0
    /\ last_update_dir_index = 0
    /\ log = <<>>
    /\ error = "None"
    /\ split_dir_index = 0
    /\ sub_dir_name = <<>>
    /\ assigned = <<>>
    /\ calls = 0

GetFileSplitDirIndex ==
    /\ pc = "assign"
    /\ i < num_files
    /\ LET r == get_file_split_dir_index(i + 1, num_split_dirs, num_files)
       IN  /\ error' = r.error
           /\ assigned' = IF r.error = "None" THEN Append(assigned, r.index) ELSE assigned
           /\ pc' = IF r.error = "None" THEN "assign" ELSE "failed"
    /\ i' = i + 1
    /\ UNCHANGED <<command, num_split_dirs, in_dir_start, in_dir, file_list, num_files, out_root,
                   sub_dirs, out_files, last_update_dir_index, log,
                   split_dir_index, sub_dir_name, calls>>

NextAssigner == GetFileSplitDirIndex

SpecAssigner == InitAssigner /\ [][NextAssigner]_vars

-----------------------------------------------------------------------------
(* create_split_dirs called repeatedly on an output root of which any part *)
(* may be there already                                                    *)

InitProv ==
    /\ pc = "prov"
    /\ num_split_dirs \in 1..ProvMaxShards
    /\ out_root \in BOOLEAN
    /\ sub_dirs \in (IF out_root
                     THEN SUBSET SplitDirNames(num_split_dirs, num_split_dirs)
                     ELSE {{}})
    /\ command = "c"
    /\ in_dir = {}
    /\ in_dir_start = {}
    /\ file_list = <<>>
    /\ num_files = 0
    /\ out_files = {}
    /\ i = 0
    /\ last_update_dir_index = 0
    /\ log = <<>>
    /\ error = "None"
    /\ split_dir_index = 0
    /\ sub_dir_name = <<>>
    /\ assigned = <<>>
    /\ calls = 0

Provision ==
    /\ pc = "prov"
    /\ calls < MaxCalls
    /\ LET made == create_split_dirs(out_root, sub_dirs, num_split_dirs)
       IN  /\ out_root' = made.root
           /\ sub_dirs' = made.dirs
           /\ error' = made.error
           /\ pc' = IF made.error = "None" THEN "prov" ELSE "failed"
    /\ calls' = calls + 1
    /\ UNCHANGED <<command, num_split_dirs, in_dir_start, in_dir, file_list, num_files, out_files,
                   i, last_update_dir_index, log, split_dir_index,
                   sub_dir_name, assigned>>

NextProv == Provision

SpecProv == InitProv /\ [][NextProv]_vars

-----------------------------------------------------------------------------
(* Definitions the properties are stated with, independent of the helpers  *)
(* of the program                                                          *)

RECURSIVE Pow10(_)
Pow10(k) == IF k <= 0 THEN 1 ELSE 10 * Pow10(k - 1)

\* the number of decimal digits of n >= 1
NumDigits(n) == CHOOSE d \in 1..(n + 1) : Pow10(d - 1) <= n /\ n < Pow10(d)

RECURSIVE DigitsValue(_)
\* the number a digit string denotes
DigitsValue(s) ==
    IF s = <<>> THEN 0
    ELSE 10 * DigitsValue(SubSeq(s, 1, Len(s) - 1)) + s[Len(s)]

\* n written with exactly w digits
Padded(n, w) == [j \in 1..w |-> (n \div Pow10(w - j)) % 10]

\* the shard directory names of a run with total shards
ExpectedDirs(total) == {Padded(n, NumDigits(total)) : n \in 1..total}

\* the shard of a position as section 4.2 of the specification words it
ExpectedIndex(position, total, nfiles) ==
    LET perShard == nfiles \div total
    IN  IF perShard = 0 \/ position > perShard * total
        THEN total
        ELSE (position - 1) \div perShard + 1

FilesOf(entries) == {e.name : e \in {d \in entries : d.isfile}}
OutNames == {t[2] : t \in out_files}
DirsHolding(f) == {t[1] : t \in {u \in out_files : u[2] = f}}
CountIn(s) == Cardinality({p \in 1..Len(assigned) : assigned[p] = s})
AllDirsExist == out_root /\ ExpectedDirs(num_split_dirs) \subseteq sub_dirs

-----------------------------------------------------------------------------
(* Properties *)

\* C1: after a run that finished without a failure, every file the source
\* directory held at the start is in exactly one shard directory of the
\* output root, and the shard directories hold no other name.
C1_UnionIsSource ==
    pc = "done" =>
        /\ OutNames = FilesOf(in_dir_start)
        /\ \A f \in FilesOf(in_dir_start) : Cardinality(DirsHolding(f)) = 1
        /\ \A t \in out_files : t[1] \in ExpectedDirs(num_split_dirs)

C1_Witness ==
    /\ pc = "done"
    /\ command = "m"
    /\ num_files = 3
    /\ num_split_dirs = 2
    /\ Cardinality(out_files) = 3
    /\ [name |-> 0, isfile |-> FALSE] \in in_dir_start

\* C2: once get_file_split_dir_index has been applied to every position
\* 1..num_files, each of the shards 1..num_split_dirs-1 has exactly
\* floor(num_files / num_split_dirs) positions, the last shard has all the
\* others, and no shard has more than the last.
C2_ShardCounts ==
    (pc = "assign" /\ i = num_files) =>
        LET perShard == num_files \div num_split_dirs
        IN  /\ Len(assigned) = num_files
            /\ \A s \in 1..(num_split_dirs - 1) : CountIn(s) = perShard
            /\ CountIn(num_split_dirs) = num_files - (num_split_dirs - 1) * perShard
            /\ \A s \in 1..num_split_dirs : CountIn(num_split_dirs) >= CountIn(s)

C2_Witness ==
    /\ pc = "assign"
    /\ num_split_dirs = 3
    /\ num_files = 10
    /\ assigned = <<1, 1, 1, 2, 2, 2, 3, 3, 3, 3>>

\* C3: a run that finished without a failure has, in move mode, left none
\* of the enumerated files in the source directory and, in copy mode, left
\* the source directory as it was at the start; no step of a copy run
\* changes the source directory.
C3_SourceAfterRun ==
    /\ [](pc = "done" =>
            /\ command = "m" =>
                  /\ FilesOf(in_dir) \cap SeqRange(file_list) = {}
                  /\ FilesOf(in_dir) = {}
            /\ command = "c" => in_dir = in_dir_start)
    /\ [][command = "c" => in_dir' = in_dir]_vars

C3_Witness ==
    /\ pc = "done"
    /\ command = "c"
    /\ num_files = 3
    /\ Cardinality(out_files) = 3
    /\ in_dir = in_dir_start

\* C4: for 1 <= split_dir_index <= num_split_dirs the name returned is the
\* decimal string of the index padded with zeros on the left to the number
\* of digits of num_split_dirs, and the name of the last index starts with
\* a digit other than zero.
C4_NamePadded ==
    (pc = "named" /\ 1 <= split_dir_index /\ split_dir_index <= num_split_dirs) =>
        /\ error = "None"
        /\ Len(sub_dir_name) = NumDigits(num_split_dirs)
        /\ \A j \in 1..Len(sub_dir_name) : sub_dir_name[j] \in 0..9
        /\ DigitsValue(sub_dir_name) = split_dir_index
        /\ split_dir_index = num_split_dirs => sub_dir_name[1] # 0

C4_Witness ==
    /\ pc = "named"
    /\ num_split_dirs = 100
    /\ split_dir_index = 10
    /\ sub_dir_name = <<0, 1, 0>>

\* C5: create_split_dirs raises no error whatever part of the output root
\* and of the shard directories is there already, leaves the root and
\* exactly the shard directories of the indices 1..num_split_dirs, and a
\* further call with the same arguments changes nothing.
C5_ProvisionIdempotent ==
    [][pc = "prov" =>
          /\ error' = "None"
          /\ out_root'
          /\ sub_dirs' = ExpectedDirs(num_split_dirs)
          /\ calls >= 1 => (sub_dirs' = sub_dirs /\ out_root' = out_root)]_vars

C5_Witness ==
    /\ pc = "prov"
    /\ calls = 2
    /\ error = "None"
    /\ num_split_dirs = 10
    /\ out_root
    /\ sub_dirs = ExpectedDirs(10)

\* C6: a failure of the transfer at position i ends the run with the error
\* surfaced: nothing happens after it, every file of an earlier position is
\* in the shard directory it was transferred to, and no file of a later
\* position has been transferred.
C6_AbortOnFailure ==
    /\ [](error # "None" => pc = "failed")
    /\ []((pc = "failed" /\ i >= 1) =>
            /\ \A p \in 1..(i - 1) :
                  <<Padded(ExpectedIndex(p, num_split_dirs, num_files),
                           NumDigits(num_split_dirs)), file_list[p]>> \in out_files
            /\ \A p \in (i + 1)..num_files :
                  /\ DirsHolding(file_list[p]) = {}
                  /\ file_list[p] \in FilesOf(in_dir))
    /\ [][pc # "failed"]_vars

C6_Witness ==
    /\ pc = "failed"
    /\ error = "OSError"
    /\ num_files = 3
    /\ i = 2
    /\ num_split_dirs = 3
    /\ Cardinality(out_files) = 1

\* C7: get_ith_sub_dir_name raises an error and returns no name whenever
\* split_dir_index < 1 or split_dir_index > num_split_dirs.
C7_NamerRejectsOutOfRange ==
    (pc = "named" /\ (split_dir_index < 1 \/ split_dir_index > num_split_dirs)) =>
        /\ error # "None"
        /\ sub_dir_name = <<>>

\* C8: get_file_split_dir_index raises no error on a position of
\* 1..num_files, and returns num_split_dirs when perShard = 0 or the
\* position is beyond perShard * num_split_dirs and
\* floor((position - 1) / perShard) + 1 otherwise, always a shard of
\* 1..num_split_dirs.
C8_AssignerValue ==
    pc \in {"assign", "failed"} =>
        /\ error = "None"
        /\ pc = "assign"
        /\ Len(assigned) = i
        /\ \A p \in 1..Len(assigned) :
              /\ assigned[p] = ExpectedIndex(p, num_split_dirs, num_files)
              /\ assigned[p] \in 1..num_split_dirs

C8_Witness ==
    /\ pc = "assign"
    /\ num_split_dirs = 5
    /\ num_files = 2
    /\ assigned = <<5, 5>>

\* C9: the output root and every shard directory exist before the first
\* transfer is attempted and at every transfer, and a run over a source
\* without files ends without an error and without a transfer, all the
\* shard directories created.
C9_ProvisionBeforeTransfer ==
    /\ []((pc = "loop" \/ i >= 1 \/ out_files # {}) => AllDirsExist)
    /\ [][(i' # i \/ out_files' # out_files) =>
             (AllDirsExist /\ out_root' = out_root /\ sub_dirs' = sub_dirs)]_vars
    /\ []((pc = "done" /\ num_files = 0) =>
             (error = "None" /\ AllDirsExist /\ out_files = {} /\ i = 0))
    /\ [][(pc = "listed" /\ num_files = 0 /\ error' = "None") => pc' = "done"]_vars

C9_Witness ==
    /\ i = 1
    /\ pc = "loop"
    /\ num_split_dirs = 100
    /\ Cardinality(sub_dirs) = 100
    /\ Cardinality(out_files) = 1

\* C10: a transfer emits a progress notification exactly when the shard
\* index of its file differs from the one of the previous file (0 before
\* the first file) and is a multiple of 100; the notification names the
\* shard directory and the mode; the file goes to the shard of its position
\* whether a notification is emitted or not, and a failed transfer emits
\* none.
C10_ProgressNotification ==
    [][pc = "loop" =>
          LET cur == ExpectedIndex(i + 1, num_split_dirs, num_files)
              prev == IF i = 0 THEN 0
                      ELSE ExpectedIndex(i, num_split_dirs, num_files)
              name == Padded(cur, NumDigits(num_split_dirs))
          IN  IF pc' = "failed" THEN log' = log
              ELSE /\ out_files' = out_files \cup {<<name, file_list[i + 1]>>}
                   /\ IF prev # cur /\ cur % 100 = 0
                      THEN log' = Append(log, [mode |-> IF command = "m" THEN "Moving"
                                                        ELSE "Copying",
                                               dir |-> name])
                      ELSE log' = log]_vars

C10_Witness ==
    /\ pc = "loop"
    /\ i = 2
    /\ num_split_dirs = 100
    /\ log = <<[mode |-> "Moving", dir |-> <<1, 0, 0>>]>>

====
